---- MODULE Spec2Model ----
(***************************************************************************)
(* Model of the peer protocol engine of p2p-file-share (src/node.js,       *)
(* src/manager.js, src/peer.js).                                           *)
(*                                                                         *)
(* A node is a single-threaded event loop: every event handler runs to     *)
(* completion, and an async handler runs up to its first real I/O await    *)
(* (setSize, writePiece, computeHash, readPiece), where it is parked as a  *)
(* task and resumed by a later event.  One action of the model is one      *)
(* event-loop turn.  The handlers are operators on the whole world W       *)
(* (nodes, sockets, parked tasks), so that an action can run a handler     *)
(* and everything the handler calls.                                       *)
(*                                                                         *)
(* Peer ids are 16 lowercase hex characters compared as strings; ids of    *)
(* equal length compare as the numbers they denote, so an id is modelled   *)
(* as that number.  A listening address is identified by the id of the     *)
(* node that listens there.                                                *)
(***************************************************************************)
EXTENDS Integers, Sequences, FiniteSets, TLC

VARIABLES node, sock, tasks, env, last

vars == <<node, sock, tasks, env, last>>

(* ---------------------------------------------------------------- bounds *)
MaxSocks == 3
MaxEnvMsgs == 4
MaxDownloadMsgs == 6
MaxReconnectMsgs == 9
MaxLiveSocks == 2
MaxDropSocks == 6
MaxDropChunk == 1
MaxDropTasks == 5
MaxChunk == 2
MaxTasks == 3
MaxId == 17
MaxPexMsgs == 4
MaxPexSocks == 5
MaxPassMsgs == 9

(* ------------------------------------------------------------- constants *)
DefaultPieceSize == 65536

\* The number of characters of a peer id
IdLength == 16

NullN == -1
NullS == "null"

Nodes == {"n1", "n2", "n3"}

NodeId == [n1 |-> 2, n2 |-> 3, n3 |-> 1]

Ids == {1, 2, 3}

(* ------------------------------------------------------ generic helpers *)
Range(f) == {f[i] : i \in DOMAIN f}

Min(a, b) == IF a < b THEN a ELSE b

\* Math.ceil(a / b) for a >= 0, b > 0
CeilDiv(a, b) == (a + b - 1) \div b

\* JS "x || null" on a number or null
OrNullN(x) == IF x = 0 \/ x = NullN THEN NullN ELSE x

\* JS "x || null" on a string or null
OrNullS(x) == IF x = "" \/ x = NullS THEN NullS ELSE x

\* Set.add on an insertion-ordered Set
SetAdd(q, x) == IF x \in Range(q) THEN q ELSE Append(q, x)

RECURSIVE Dedup(_)
\* new Set(array): insertion order, duplicates dropped
Dedup(q) == IF q = <<>> THEN <<>> ELSE SetAdd(Dedup(SubSeq(q, 1, Len(q) - 1)), q[Len(q)])

\* [0, 1, ..., n-1] in insertion order
Upto(n) == [i \in 1..n |-> i - 1]

RemoveAt(q, i) == SubSeq(q, 1, i - 1) \o SubSeq(q, i + 1, Len(q))

(* ------------------------------------------------------- files on disk *)
\* The shared files that exist in the model: name, size, SHA-1.
Files == { [name |-> "f1", size |-> 131072, hash |-> "H1"],
           [name |-> "f2", size |-> 100, hash |-> "H2"],
           [name |-> "f3", size |-> 131073, hash |-> "H3"] }

\* The path given to a leecher names no existing file.
NoFile == [name |-> "out", size |-> 0, hash |-> NullS]

\* The bytes of file F from offset off, len bytes long.
Bytes(F, off, len) == [f |-> F.name, off |-> off, len |-> len]

Zeros(len) == [f |-> "zero", off |-> 0, len |-> len]

\* A file on disk: its size and its content as the blocks written, by offset.
\* The content of an existing file F cut at piece size ps.
OrigDisk(F, ps) ==
  [size |-> F.size,
   blocks |-> [off \in {i * ps : i \in 0..(CeilDiv(F.size, ps) - 1)} |->
                 Bytes(F, off, Min(ps, F.size - off))]]

EmptyDisk == [size |-> 0, blocks |-> <<>>]

NoDisk == [size |-> NullN, blocks |-> <<>>]

\* buffer.toString('base64') / Buffer.from(data, 'base64')
Base64Encode(bytes) == [enc |-> "base64", of |-> bytes]

Base64Decode(data) == data.of

(* ------------------------------------------------------------ messages *)
HandshakeMsg(id, fileName, fileSize, fileHash, pieceSize, port) ==
  [type |-> "handshake", id |-> id, fileName |-> fileName, fileSize |-> fileSize,
   fileHash |-> fileHash, pieceSize |-> pieceSize, port |-> port]

BitfieldMsg(pieces) == [type |-> "bitfield", pieces |-> pieces]

RequestMsg(index) == [type |-> "request", index |-> index]

PieceMsg(index, data) == [type |-> "piece", index |-> index, data |-> data]

HaveMsg(index) == [type |-> "have", index |-> index]

PeersMsg(peers) == [type |-> "peers", peers |-> peers]

(* ------------------------------------------------------------ Manager *)
\* new Manager(filePath, mode, pieceSize)
NewManager(mode, pieceSize) ==
  [pieceSize |-> pieceSize, fileHandle |-> FALSE, fileSize |-> 0, mode |-> mode]

\* Manager.readPiece: the offset and length it reads
ReadOffset(fm, index) == index * fm.pieceSize

ReadLength(fm, index) ==
  IF ReadOffset(fm, index) + fm.pieceSize > fm.fileSize
    THEN fm.fileSize - ReadOffset(fm, index)
    ELSE fm.pieceSize

\* Buffer.alloc(length) throws on a negative length
ReadFails(fm, index) == ReadLength(fm, index) < 0

ReadPiece(fm, disk, index) ==
  LET off == ReadOffset(fm, index)
      len == ReadLength(fm, index)
  IN IF off \in DOMAIN disk.blocks /\ disk.blocks[off].len = len
       THEN disk.blocks[off]
       ELSE Zeros(len)

\* Manager.writePiece: the disk after the write
WriteOffset(fm, index) == index * fm.pieceSize

WritePiece(fm, disk, index, bytes) ==
  LET off == WriteOffset(fm, index)
  IN [disk EXCEPT !.blocks = [o \in (DOMAIN disk.blocks) \cup {off} |->
                                IF o = off THEN bytes ELSE disk.blocks[o]],
                  !.size = IF off + bytes.len > @ THEN off + bytes.len ELSE @]

\* fileHandle.truncate(size): cut beyond size, zero-extend up to size
Truncate(disk, size) ==
  [size |-> size,
   blocks |-> [o \in {x \in DOMAIN disk.blocks : x < size} |-> disk.blocks[o]]]

\* Manager.computeHash: SHA-1 of the whole file
ComputeHash(disk) ==
  IF \E F \in Files : disk = OrigDisk(F, DefaultPieceSize)
    THEN (CHOOSE F \in Files : disk = OrigDisk(F, DefaultPieceSize)).hash
    ELSE "Hx"

(* ------------------------------------------------- node and socket state *)
\* The Node object right after its constructor returned (node.js:7-67): the
\* file is seen to exist (seed) or not (leecher); openFile() is still pending.
NewNode(id, F) ==
  [id |-> id,
   fileName |-> F.name,
   fileSize |-> NullN,
   fileHash |-> NullS,
   pieceSize |-> DefaultPieceSize,
   numPieces |-> NullN,
   knownPeers |-> <<>>,
   fileManager |-> NewManager(IF F.hash = NullS THEN "w+" ELSE "r", DefaultPieceSize),
   havePieces |-> <<>>,
   missingPieces |-> {},
   pendingPieces |-> {},
   isSeed |-> F.hash # NullS,
   disk |-> IF F.hash = NullS THEN NoDisk ELSE OrigDisk(F, DefaultPieceSize),
   phase |-> "opening",
   nextOid |-> 1,
   startedAsSeed |-> F.hash # NullS,
   completed |-> FALSE]

\* A node that does not take part in the run.
OffNode(id) == [NewNode(id, NoFile) EXCEPT !.phase = "off"]

\* A peer record of knownPeers (node.js:208, 422); oid is the identity of the
\* JavaScript object, socket = 0 is null.
NewPeerInfo(id, socket, oid) ==
  [id |-> id, socket |-> socket, availablePieces |-> <<>>, busy |-> FALSE,
   handshakeSent |-> FALSE, handshakeReceived |-> FALSE, oid |-> oid]

\* A socket object (node.js:74-77, 99-102).  peer is the socket at the other
\* end when that end is a node of the model, 0 when it is the environment;
\* wire holds the messages sent to this socket and not yet read; unans
\* counts the requests written to it and not yet answered by a piece; greeted
\* tells that the remote peer has sent its handshake; hsOut counts the
\* handshakes the node has written to it.
NewSocket(owner, isOutgoing, st, peer, target) ==
  [owner |-> owner, isOutgoing |-> isOutgoing, peerId |-> 0, st |-> st,
   peer |-> peer, target |-> target, buffer |-> <<>>, wire |-> <<>>, unans |-> 0,
   greeted |-> FALSE, hsOut |-> 0]

World == [node |-> node, sock |-> sock, tasks |-> tasks, last |-> <<>>]

Commit(W) ==
  /\ node' = W.node
  /\ sock' = W.sock
  /\ tasks' = W.tasks
  /\ last' = W.last

\* The step is taken when the sockets it leaves fit the bound of the run
CommitBounded(W) == Len(W.sock) <= env.maxSocks /\ Commit(W)

Trace(W, e) == [W EXCEPT !.last = Append(@, e)]

Ret(W) == [w |-> W, susp |-> FALSE]

Susp(W) == [w |-> W, susp |-> TRUE]

PeerIdx(kp, id) ==
  IF \E i \in 1..Len(kp) : kp[i].id = id
    THEN CHOOSE i \in 1..Len(kp) : kp[i].id = id
    ELSE 0

OidIdx(kp, oid) ==
  IF \E i \in 1..Len(kp) : kp[i].oid = oid
    THEN CHOOSE i \in 1..Len(kp) : kp[i].oid = oid
    ELSE 0

HasPeer(kp, id) == PeerIdx(kp, id) # 0

\* knownPeers.delete(id)
DeletePeer(kp, id) == SelectSeq(kp, LAMBDA p : p.id # id)

(* ------------------------------------------------------------- sending *)
\* socket.write(JSON.stringify(m) + '\n'): a write to a socket that was
\* ended or is closed only raises the socket's error event.
Write(W, s, m) ==
  IF W.sock[s].st # "open" THEN W
  ELSE LET p == W.sock[s].peer
           W1 == Trace(W, [t |-> "write", s |-> s, m |-> m])
           W2 == CASE m.type = "request" -> [W1 EXCEPT !.sock[s].unans = @ + 1]
                   [] m.type = "handshake" -> [W1 EXCEPT !.sock[s].hsOut = @ + 1]
                   [] OTHER -> W1
       IN IF p # 0 /\ W.sock[p].st # "closed"
            THEN [W2 EXCEPT !.sock[p].wire = Append(@, m)]
            ELSE W2

\* socket.end()
End(W, s) == IF W.sock[s].st = "open" THEN [W EXCEPT !.sock[s].st = "ended"] ELSE W

SendHandshake(W, s) ==
  LET n == W.sock[s].owner
      N == W.node[n]
      W1 == Write(W, s, HandshakeMsg(N.id, N.fileName, N.fileSize, N.fileHash, N.pieceSize, N.id))
      i == PeerIdx(N.knownPeers, W.sock[s].peerId)
  IN IF W.sock[s].peerId # 0 /\ i # 0
       THEN [W1 EXCEPT !.node[n].knownPeers[i].handshakeSent = TRUE]
       ELSE W1

\* Mutant: the bitfield lists no piece
SendEmptyBitfield(W, s) == Write(W, s, BitfieldMsg(<<>>))

\* _sendBitfield (node.js:453-461)
SendBitfield(W, s) ==
  Write(W, s, BitfieldMsg(W.node[W.sock[s].owner].havePieces))

\* _sendRequest(socket, index); s = 0 is a null socket
SendRequest(W, n, s, index) ==
  IF s = 0 THEN W
  ELSE LET W1 == [W EXCEPT !.node[n].pendingPieces = @ \cup {index}]
           i == PeerIdx(W.node[n].knownPeers, W.sock[s].peerId)
           W2 == IF W.sock[s].peerId # 0 /\ i # 0
                   THEN [W1 EXCEPT !.node[n].knownPeers[i].busy = TRUE]
                   ELSE W1
       IN Write(W2, s, RequestMsg(index))

\* Mutant: the first index of availablePieces that is missing, pending or not
FirstMissing(avail, missing, pending) ==
  LET c == {k \in 1..Len(avail) : avail[k] \in missing}
  IN IF c = {} THEN NullN ELSE avail[CHOOSE k \in c : \A j \in c : k <= j]

\* The first index of the peer's availablePieces that is missing and not pending
FirstAssignable(avail, missing, pending) ==
  LET c == {k \in 1..Len(avail) : avail[k] \in missing /\ avail[k] \notin pending}
  IN IF c = {} THEN NullN ELSE avail[CHOOSE k \in c : \A j \in c : k <= j]

RECURSIVE ScheduleFrom(_, _, _)
\* The loop of _scheduleRequests from the i-th entry of knownPeers on
ScheduleFrom(W, n, i) ==
  IF i > Len(W.node[n].knownPeers) THEN W
  ELSE LET N == W.node[n]
           p == N.knownPeers[i]
           idx == FirstAssignable(p.availablePieces, N.missingPieces, N.pendingPieces)
       IN IF p.socket = 0 \/ p.busy \/ idx = NullN
            THEN ScheduleFrom(W, n, i + 1)
            ELSE ScheduleFrom(SendRequest(W, n, p.socket, idx), n, i + 1)

ScheduleRequests(W, n) ==
  IF W.node[n].fileHash = NullS \/ W.node[n].missingPieces = {}
    THEN W
    ELSE ScheduleFrom(W, n, 1)

(* ------------------------------------------------------------ handlers *)
\* The reply of _handleHandshake (node.js:256-262): an inbound connection is
\* answered with the node's handshake unless the record says it was sent; the
\* record, when it is still in knownPeers at index i, is marked handshakeReceived
ReplyHandshake(W, s, i, sent) ==
  LET n == W.sock[s].owner
      W1 == IF ~W.sock[s].isOutgoing /\ ~sent THEN SendHandshake(W, s) ELSE W
  IN IF i # 0 THEN [W1 EXCEPT !.node[n].knownPeers[i].handshakeReceived = TRUE] ELSE W1

\* Mutant: a bitfield is sent after every handshake, an empty one included
BitfieldAlways(W, s) == SendBitfield(W, s)

\* node.js:264-268: the bitfield is sent when the node holds a piece
BitfieldIfAny(W, s) ==
  IF W.node[W.sock[s].owner].havePieces # <<>> THEN SendBitfield(W, s) ELSE W

RECURSIVE Announce(_, _, _, _)
\* node.js:284-292: the new peer is announced to the first k other peers
Announce(W, others, k, remoteId) ==
  IF k = 0 THEN W
  ELSE Write(Announce(W, others, k - 1, remoteId), others[k].socket, PeersMsg(<<remoteId>>))

\* Peer exchange on an inbound connection (node.js:270-295): the other known
\* peers with a socket are listed to the new peer, and it is announced to them
ExchangePeers(W, s, remoteId) ==
  LET n == W.sock[s].owner
      others == SelectSeq(W.node[n].knownPeers, LAMBDA p : p.id # remoteId /\ p.socket # 0)
  IN IF others = <<>> THEN W
     ELSE Announce(Write(W, s, PeersMsg([k \in 1..Len(others) |-> others[k].id])),
                   others, Len(others), remoteId)

\* The part of _handleHandshake after the metadata reconciliation
\* (node.js:256-295).  oid is the peerInfo object the handler holds; when the
\* record was deleted from knownPeers meanwhile the handler still holds the
\* detached object, whose handshakeSent flag is sentCopy.
HandshakeTail(W, s, remoteId, oid, sentCopy) ==
  LET n == W.sock[s].owner
      i == OidIdx(W.node[n].knownPeers, oid)
      sent == IF i # 0 THEN W.node[n].knownPeers[i].handshakeSent ELSE sentCopy
  IN IF W.sock[s].isOutgoing
       THEN BitfieldIfAny(ReplyHandshake(W, s, i, sent), s)
       ELSE ExchangePeers(BitfieldIfAny(ReplyHandshake(W, s, i, sent), s), s, remoteId)

\* Mutant: the rejection closes the connection and keeps the peer record
RejectHandshakeKeepRecord(W, s, remoteId, why) ==
  Trace(End(W, s), [t |-> "handshake", s |-> s, id |-> remoteId, outcome |-> why])

\* socket.end(); this.knownPeers.delete(remoteId); return (node.js:220-222,
\* 250-252)
RejectHandshake(W, s, remoteId, why) ==
  LET n == W.sock[s].owner
  IN Trace([End(W, s) EXCEPT !.node[n].knownPeers = DeletePeer(@, remoteId)],
           [t |-> "handshake", s |-> s, id |-> remoteId, outcome |-> why])

\* _handleHandshake for a remote id that is not the node's own, up to its
\* await (node.js:201-254)
HandshakeFrom(W, s, m) ==
  LET n == W.sock[s].owner
      N == W.node[n]
      remoteId == m.id
      remoteFileName == OrNullS(m.fileName)
      remoteFileSize == OrNullN(m.fileSize)
      remoteFileHash == OrNullS(m.fileHash)
      remotePieceSize == OrNullN(m.pieceSize)
      known == HasPeer(N.knownPeers, remoteId)
      kp1 == IF known
               THEN [N.knownPeers EXCEPT ![PeerIdx(N.knownPeers, remoteId)].socket = s]
               ELSE Append(N.knownPeers, NewPeerInfo(remoteId, s, N.nextOid))
      oid == kp1[PeerIdx(kp1, remoteId)].oid
      sentCopy == kp1[PeerIdx(kp1, remoteId)].handshakeSent
      W1 == [W EXCEPT !.node[n].knownPeers = kp1,
                      !.node[n].nextOid = IF known THEN @ ELSE @ + 1,
                      !.sock[s].peerId = remoteId]
      numPieces == CeilDiv(IF remoteFileSize = NullN THEN 0 ELSE remoteFileSize, remotePieceSize)
      W2 == [W1 EXCEPT !.node[n].fileName = remoteFileName,
                       !.node[n].fileSize = remoteFileSize,
                       !.node[n].fileHash = remoteFileHash,
                       !.node[n].pieceSize = remotePieceSize,
                       !.node[n].numPieces = numPieces,
                       !.node[n].missingPieces = @ \cup Range(Upto(numPieces)),
                       !.node[n].havePieces = <<>>,
                       !.node[n].fileManager.fileSize = remoteFileSize]
  IN IF N.isSeed
       THEN IF remoteFileHash # NullS /\ N.fileHash # NullS /\ remoteFileHash # N.fileHash
              THEN Ret(RejectHandshake(W1, s, remoteId, "wrongfile"))
              ELSE Ret(Trace(HandshakeTail(W1, s, remoteId, oid, sentCopy),
                             [t |-> "handshake", s |-> s, id |-> remoteId, outcome |-> "accepted"]))
     ELSE IF remoteFileHash = NullS
       THEN Ret(RejectHandshake(W1, s, remoteId, "nometa"))
     ELSE IF ~N.fileManager.fileHandle
       \* setSize on a file that is not open yet throws: the rejection is
       \* unhandled and ends the process (Node.js v22)
       THEN Ret(Trace([W2 EXCEPT !.node[n].phase = "crashed"],
                      [t |-> "handshake", s |-> s, id |-> remoteId, outcome |-> "crash"]))
     ELSE Susp(Trace([W2 EXCEPT !.tasks = Append(@, [kind |-> "setSize", s |-> s, id |-> remoteId,
                                                       oid |-> oid, sent |-> sentCopy,
                                                       index |-> 0, bytes |-> Zeros(0)])],
                     [t |-> "handshake", s |-> s, id |-> remoteId, outcome |-> "adopt"]))

\* Mutant: the handshake handler without the check of the node's own id
HandleHandshakeNoSelfCheck(W, s, m) == HandshakeFrom(W, s, m)

\* _handleHandshake up to its await (node.js:188-254)
HandleHandshake(W, s, m) ==
  IF m.id = W.node[W.sock[s].owner].id
    THEN Ret(Trace(W, [t |-> "handshake", s |-> s, id |-> m.id, outcome |-> "self"]))
    ELSE HandshakeFrom(W, s, m)

\* _handleHandshake after "await this.fileManager.setSize" (node.js:241-295)
ResumeSetSize(W, k) ==
  LET n == W.sock[k.s].owner
      W1 == [W EXCEPT !.node[n].disk = Truncate(@, W.node[n].fileManager.fileSize)]
  IN Ret(Trace(HandshakeTail(W1, k.s, k.id, k.oid, k.sent),
               [t |-> "handshake", s |-> k.s, id |-> k.id, outcome |-> "accepted"]))

\* _handleBitfield (node.js:298-307)
HandleBitfield(W, s, m) ==
  LET n == W.sock[s].owner
      i == PeerIdx(W.node[n].knownPeers, W.sock[s].peerId)
  IN IF W.sock[s].peerId = 0 \/ i = 0 THEN Ret(W)
     ELSE Ret(ScheduleRequests(
                [W EXCEPT !.node[n].knownPeers[i].availablePieces = Dedup(m.pieces)], n))

\* Mutant: the request is served without looking at havePieces
HandleRequestUnchecked(W, s, m) ==
  Ret([W EXCEPT !.tasks = Append(@, [kind |-> "read", s |-> s, id |-> 0, oid |-> 0,
                                     sent |-> FALSE, index |-> m.index,
                                     bytes |-> Zeros(0)])])

\* _handleRequest (node.js:309-330): readPiece is started, not awaited
HandleRequest(W, s, m) ==
  LET n == W.sock[s].owner
  IN IF m.index \notin Range(W.node[n].havePieces) THEN Ret(W)
     ELSE Ret([W EXCEPT !.tasks = Append(@, [kind |-> "read", s |-> s, id |-> 0, oid |-> 0,
                                             sent |-> FALSE, index |-> m.index,
                                             bytes |-> Zeros(0)])])

\* the then/catch of readPiece in _handleRequest (node.js:319-329)
ResumeRead(W, k) ==
  LET N == W.node[W.sock[k.s].owner]
  IN IF ReadFails(N.fileManager, k.index) THEN Ret(W)
     ELSE Ret(Write(W, k.s, PieceMsg(k.index,
                      Base64Encode(ReadPiece(N.fileManager, N.disk, k.index)))))

\* _handlePiece up to "await this.fileManager.writePiece" (node.js:332-344)
HandlePiece(W, s, m) ==
  LET n == W.sock[s].owner
      W1 == [W EXCEPT !.sock[s].unans = IF @ > 0 THEN @ - 1 ELSE 0]
  IN IF ~W.node[n].fileManager.fileHandle
       \* writePiece throws on the null file handle; the catch returns
       THEN Ret(Trace(W1, [t |-> "piece", s |-> s, index |-> m.index, outcome |-> "writefail"]))
       ELSE Susp([W1 EXCEPT !.tasks = Append(@, [kind |-> "write", s |-> s, id |-> 0, oid |-> 0,
                                                  sent |-> FALSE, index |-> m.index,
                                                  bytes |-> Base64Decode(m.data)])])

\* Mutant: the received piece is not taken out of pendingPieces
MarkPieceReceivedKeepPending(W, n, index) ==
  [W EXCEPT !.node[n].havePieces = SetAdd(@, index),
            !.node[n].missingPieces = @ \ {index}]

\* The update of the piece sets in _handlePiece (node.js:346-348)
MarkPieceReceived(W, n, index) ==
  [W EXCEPT !.node[n].havePieces = SetAdd(@, index),
            !.node[n].missingPieces = @ \ {index},
            !.node[n].pendingPieces = @ \ {index}]

\* Mutant: completion handling ends without flagging the node as a seed
BecomeSeedForgotten(W, n) == [W EXCEPT !.node[n].completed = TRUE]

\* this.isSeed = true at the end of completion handling (node.js:391);
\* completed records that completion handling has finished
BecomeSeed(W, n) == [W EXCEPT !.node[n].isSeed = TRUE, !.node[n].completed = TRUE]

RECURSIVE BroadcastHave(_, _, _, _, _)
\* node.js:357-365: "have" is written to the first j known peers that have a
\* socket, the sender of the piece excepted
BroadcastHave(W, kp, j, pid, index) ==
  IF j = 0 THEN W
  ELSE IF kp[j].socket # 0 /\ kp[j].id # pid
    THEN Write(BroadcastHave(W, kp, j - 1, pid, index), kp[j].socket, HaveMsg(index))
    ELSE BroadcastHave(W, kp, j - 1, pid, index)

\* node.js:367-397: the download is complete when nothing is missing (the hash
\* is then verified when it is known); otherwise requests are scheduled
AfterPiece(W, n, k) ==
  IF W.node[n].missingPieces = {}
    THEN IF W.node[n].fileHash # NullS
           THEN Susp([W EXCEPT !.tasks = Append(@, [k EXCEPT !.kind = "hash"])])
           ELSE Ret(BecomeSeed(W, n))
    ELSE Ret(ScheduleRequests(W, n))

\* StorePiece with the requests scheduled ahead of the have messages
StorePieceRequestFirst(W, n, k) ==
  LET N == W.node[n]
      pid == W.sock[k.s].peerId
      i == PeerIdx(N.knownPeers, pid)
      W1 == MarkPieceReceived(
              [W EXCEPT !.node[n].disk = WritePiece(N.fileManager, @, k.index, k.bytes)],
              n, k.index)
      W2 == IF pid # 0 /\ i # 0 THEN [W1 EXCEPT !.node[n].knownPeers[i].busy = FALSE] ELSE W1
      W3 == Trace(W2, [t |-> "piece", s |-> k.s, index |-> k.index, outcome |-> "stored"])
  IN BroadcastHave(ScheduleRequests(W3, n), N.knownPeers, Len(N.knownPeers), pid, k.index)

\* node.js:345-365: the piece is recorded, its sender is free again and the
\* other peers are told
StorePiece(W, n, k) ==
  LET N == W.node[n]
      pid == W.sock[k.s].peerId
      i == PeerIdx(N.knownPeers, pid)
      W1 == MarkPieceReceived(
              [W EXCEPT !.node[n].disk = WritePiece(N.fileManager, @, k.index, k.bytes)],
              n, k.index)
      W2 == IF pid # 0 /\ i # 0 THEN [W1 EXCEPT !.node[n].knownPeers[i].busy = FALSE] ELSE W1
  IN BroadcastHave(Trace(W2, [t |-> "piece", s |-> k.s, index |-> k.index, outcome |-> "stored"]),
                   N.knownPeers, Len(N.knownPeers), pid, k.index)

\* _handlePiece after the write, up to "await computeHash" (node.js:345-398)
ResumeWrite(W, k) ==
  LET n == W.sock[k.s].owner
  IN IF W.node[n].fileManager.mode = "r"
       \* the write on a read-only file handle is rejected; the catch returns
       THEN Ret(Trace(W, [t |-> "piece", s |-> k.s, index |-> k.index, outcome |-> "writefail"]))
       ELSE AfterPiece(StorePiece(W, n, k), n, k)

\* _handlePiece after "await computeHash" (node.js:379-394)
ResumeHash(W, k) ==
  LET n == W.sock[k.s].owner
  IN Ret(Trace(BecomeSeed(W, n),
               [t |-> "piece", s |-> k.s, index |-> k.index, outcome |-> "completed"]))

\* _handleHave (node.js:400-412)
HandleHave(W, s, m) ==
  LET n == W.sock[s].owner
      N == W.node[n]
      i == PeerIdx(N.knownPeers, W.sock[s].peerId)
      W1 == [W EXCEPT !.node[n].knownPeers[i].availablePieces = SetAdd(@, m.index)]
  IN IF W.sock[s].peerId = 0 \/ i = 0 THEN Ret(W)
     ELSE IF m.index \in N.missingPieces /\ m.index \notin N.pendingPieces
             /\ ~N.knownPeers[i].busy
       THEN Ret(ScheduleRequests(W1, n))
     ELSE Ret(W1)

\* The UTF-16 code unit of a lowercase hexadecimal digit: '0'..'9', 'a'..'f'
CodeUnit(d) == IF d < 10 THEN 48 + d ELSE 87 + d

\* The string of the hexadecimal digits q
CodeUnits(q) == [i \in 1..Len(q) |-> CodeUnit(q[i])]

RECURSIVE HexDigits(_, _)
\* The len low hexadecimal digits of n, most significant first
HexDigits(n, len) ==
  IF len = 0 THEN <<>> ELSE Append(HexDigits(n \div 16, len - 1), n % 16)

\* crypto.randomBytes(8).toString('hex') (node.js:15): the id as the string of
\* its 16 hexadecimal digits, a sequence of code units; id 0 stands for a
\* null id, which is falsy like the empty string
IdString(id) ==
  IF id = 0 THEN <<>> ELSE CodeUnits(HexDigits(id, IdLength))

RECURSIVE StringGreater(_, _)
\* JavaScript a > b on two strings: the first code unit that differs decides,
\* and a proper prefix is the smaller string
StringGreater(a, b) ==
  IF a = <<>> THEN FALSE
  ELSE IF b = <<>> THEN TRUE
  ELSE IF Head(a) # Head(b) THEN Head(a) > Head(b)
  ELSE StringGreater(Tail(a), Tail(b))

\* Mutant: the rule without the comparison of the two ids
ShouldInitiateUnordered(selfId, otherPeerId) == otherPeerId # <<>> /\ selfId # <<>>

\* _shouldInitiateConnection (node.js:499-504) on the two id strings
ShouldInitiateConnection(selfId, otherPeerId) ==
  otherPeerId # <<>> /\ selfId # <<>> /\ StringGreater(selfId, otherPeerId)

\* connectToPeer up to the connect callback (node.js:95-97): the socket exists
\* and the connection attempt to the address is under way.
ConnectToPeer(W, n, addr) ==
  Trace([W EXCEPT !.sock = Append(@, NewSocket(n, FALSE, "connecting", 0, addr))],
        [t |-> "dial", n |-> n, to |-> addr])

\* The body of the loop of _handlePeers (node.js:417-431) for one listed id
AddPeer(W, n, peerId) ==
  LET N == W.node[n]
      W1 == [W EXCEPT !.node[n].knownPeers = Append(@, NewPeerInfo(peerId, 0, N.nextOid)),
                      !.node[n].nextOid = @ + 1]
  IN IF peerId = N.id \/ HasPeer(N.knownPeers, peerId) THEN W
     ELSE IF ShouldInitiateConnection(IdString(N.id), IdString(peerId))
       THEN ConnectToPeer(W1, n, peerId)
       ELSE W1

RECURSIVE AddPeers(_, _, _, _)
AddPeers(W, n, peers, j) ==
  IF j = 0 THEN W ELSE AddPeer(AddPeers(W, n, peers, j - 1), n, peers[j])

\* _handlePeers (node.js:414-433)
HandlePeers(W, s, m) == Ret(AddPeers(W, W.sock[s].owner, m.peers, Len(m.peers)))

\* _handleMessage (node.js:161-186)
HandleMessage(W, s, m) ==
  CASE m.type = "handshake" -> HandleHandshake(W, s, m)
    [] m.type = "bitfield" -> HandleBitfield(W, s, m)
    [] m.type = "request" -> HandleRequest(W, s, m)
    [] m.type = "piece" -> HandlePiece(W, s, m)
    [] m.type = "have" -> HandleHave(W, s, m)
    [] m.type = "peers" -> HandlePeers(W, s, m)
    [] OTHER -> Ret(W)

RECURSIVE RunLoop(_, _)
RECURSIVE Continue(_, _)
\* node.js:133: the loop goes on with the next message when the handler has
\* returned, and stays parked with the handler when it awaits I/O
Continue(R, s) == IF R.susp THEN R.w ELSE RunLoop(R.w, s)

\* The while loop of the data handler (node.js:121-134): messages are taken
\* from the socket's buffer until it is empty or a handler awaits I/O.
RunLoop(W, s) ==
  IF W.sock[s].buffer = <<>> \/ W.node[W.sock[s].owner].phase = "crashed" THEN W
  ELSE LET m == Head(W.sock[s].buffer)
       IN Continue(HandleMessage(Trace([W EXCEPT !.sock[s].buffer = Tail(@)],
                                       [t |-> "recv", s |-> s, m |-> m]), s, m), s)

\* Mutant: the close handler keeps the outstanding requests in pendingPieces
CloseHandlerKeepPending(W, s) ==
  LET n == W.sock[s].owner
      pid == W.sock[s].peerId
      i == PeerIdx(W.node[n].knownPeers, pid)
      W1 == [W EXCEPT !.sock[s].st = "closed", !.sock[s].wire = <<>>, !.sock[s].unans = 0]
      W2 == IF pid # 0 /\ i # 0
              THEN [W1 EXCEPT !.node[n].knownPeers[i].socket = 0,
                              !.node[n].knownPeers[i].busy = FALSE]
              ELSE W1
  IN ScheduleRequests(Trace(W2, [t |-> "close", s |-> s, id |-> pid]), n)

\* The close handler of a socket (node.js:137-153)
CloseHandler(W, s) ==
  LET n == W.sock[s].owner
      pid == W.sock[s].peerId
      i == PeerIdx(W.node[n].knownPeers, pid)
      W1 == [W EXCEPT !.sock[s].st = "closed", !.sock[s].wire = <<>>, !.sock[s].unans = 0]
      W2 == IF pid # 0 /\ i # 0
              THEN [W1 EXCEPT !.node[n].knownPeers[i].socket = 0,
                              !.node[n].knownPeers[i].busy = FALSE]
              ELSE W1
      W3 == [W2 EXCEPT !.node[n].pendingPieces = {}]
  IN ScheduleRequests(Trace(W3, [t |-> "close", s |-> s, id |-> pid]), n)

(* ------------------------------------------------------------- actions *)
Alive(n) == node[n].phase \notin {"off", "crashed"}

SockIds == 1..Len(sock)

\* openFile() resolves and the constructor's then-callback runs up to
\* "await computeHash" (manager.js:15-28, node.js:40-57)
OpenDone(n) ==
  /\ node[n].phase = "opening"
  /\ LET N == node[n]
         fm1 == [N.fileManager EXCEPT !.fileHandle = TRUE,
                                      !.fileSize = IF N.fileManager.mode = "r" THEN N.disk.size ELSE 0]
         N1 == [N EXCEPT !.fileManager = fm1,
                         !.disk = IF N.fileManager.mode = "r" THEN @ ELSE EmptyDisk]
         fileSize == fm1.fileSize
         pieceSize == IF fileSize < N.pieceSize THEN fileSize ELSE N.pieceSize
         numPieces == CeilDiv(fileSize, pieceSize)
         N2 == [N1 EXCEPT !.fileSize = fileSize,
                          !.pieceSize = pieceSize,
                          !.fileManager.pieceSize = IF fileSize < N.pieceSize THEN fileSize ELSE @,
                          !.numPieces = numPieces,
                          !.havePieces = Upto(numPieces),
                          !.phase = "hashing"]
     IN node' = [node EXCEPT ![n] = IF N.isSeed THEN N2 ELSE [N1 EXCEPT !.phase = "ready"]]
  /\ last' = <<>>
  /\ UNCHANGED <<sock, tasks, env>>

\* computeHash() of the constructor resolves (node.js:57)
HashDone(n) ==
  /\ node[n].phase = "hashing"
  /\ node' = [node EXCEPT ![n].fileHash = ComputeHash(node[n].disk), ![n].phase = "ready"]
  /\ last' = <<>>
  /\ UNCHANGED <<sock, tasks, env>>

\* The node whose listener answers at an address, if it is part of the run
Listener(addr) ==
  IF \E n \in Nodes : NodeId[n] = addr /\ node[n].phase \notin {"off", "crashed"}
    THEN CHOOSE n \in Nodes : NodeId[n] = addr /\ node[n].phase \notin {"off", "crashed"}
    ELSE "none"

\* The connect callback of connectToPeer (node.js:97-107); when the address is
\* that of a node of the run, its listener accepts the connection (node.js:72-80).
ConnectOK(s) ==
  /\ s \in SockIds
  /\ sock[s].st = "connecting"
  /\ Alive(sock[s].owner)
  /\ LET l == Listener(sock[s].target)
         W0 == World
         W1 == IF l = "none"
                 THEN [W0 EXCEPT !.sock[s].st = "open", !.sock[s].isOutgoing = TRUE]
                 ELSE [W0 EXCEPT !.sock = Append([@ EXCEPT ![s].st = "open",
                                                            ![s].isOutgoing = TRUE,
                                                            ![s].peer = Len(sock) + 1],
                                                 NewSocket(l, FALSE, "open", s, 0))]
     IN CommitBounded(SendHandshake(W1, s))
  /\ UNCHANGED env

\* The connection attempt fails: only the error is logged (node.js:109-111)
ConnectFail(s) ==
  /\ s \in SockIds
  /\ sock[s].st = "connecting"
  /\ Alive(sock[s].owner)
  /\ sock' = [sock EXCEPT ![s].st = "closed"]
  /\ last' = <<>>
  /\ UNCHANGED <<node, tasks, env>>

\* A remote peer outside the run connects to the node's listener (node.js:72-80)
EnvConnect(n) ==
  /\ Alive(n)
  /\ env.budget > 0
  /\ Len(sock) < env.maxSocks
  /\ sock' = Append(sock, NewSocket(n, FALSE, "open", 0, 0))
  /\ env' = [env EXCEPT !.budget = @ - 1]
  /\ last' = <<>>
  /\ UNCHANGED <<node, tasks>>

HasHandshake(chunk) == \E j \in 1..Len(chunk) : chunk[j].type = "handshake"

\* The data handler of a socket (node.js:116-135) on a chunk sent by a remote
\* peer outside the run; a well-behaved peer greets once per connection
EnvData(s, chunk) ==
  /\ s \in SockIds
  /\ sock[s].peer = 0
  /\ sock[s].st \in {"open", "ended"}
  /\ Alive(sock[s].owner)
  /\ env.budget > 0
  /\ chunk \in env.chunks
  /\ env.oneHandshake => (HasHandshake(chunk) => ~sock[s].greeted)
  /\ LET W1 == RunLoop([World EXCEPT !.sock[s].buffer = @ \o chunk,
                                    !.sock[s].greeted = @ \/ HasHandshake(chunk)], s)
     IN CommitBounded(W1)
  /\ env' = [env EXCEPT !.budget = @ - 1]

\* The data handler of a socket (node.js:116-135) on a chunk that holds the
\* first k messages in flight from another node of the run
Deliver(s, k) ==
  /\ s \in SockIds
  /\ sock[s].peer # 0
  /\ sock[s].st \in {"open", "ended"}
  /\ Alive(sock[s].owner)
  /\ k \in 1..Min(Len(sock[s].wire), env.maxChunk)
  /\ LET W1 == [World EXCEPT !.sock[s].buffer = @ \o SubSeq(sock[s].wire, 1, k),
                             !.sock[s].wire = SubSeq(@, k + 1, Len(@)),
                             !.sock[s].greeted = @ \/ HasHandshake(SubSeq(sock[s].wire, 1, k))]
         W2 == RunLoop(W1, s)
     IN CommitBounded(W2)
  /\ UNCHANGED env

\* A parked handler resumes when its file operation completes
Resume(i) ==
  /\ i \in 1..Len(tasks)
  /\ Alive(sock[tasks[i].s].owner)
  /\ LET k == tasks[i]
         W1 == [World EXCEPT !.tasks = RemoveAt(@, i)]
     IN CASE k.kind = "setSize" -> CommitBounded(Continue(ResumeSetSize(W1, k), k.s))
          [] k.kind = "write" -> CommitBounded(Continue(ResumeWrite(W1, k), k.s))
          [] k.kind = "hash" -> CommitBounded(Continue(ResumeHash(W1, k), k.s))
          \* the then-callback of readPiece is no part of a data handler
          [] k.kind = "read" -> CommitBounded(ResumeRead(W1, k).w)
  /\ UNCHANGED env

\* A remote peer outside the run closes its connection
EnvClose(s) ==
  /\ s \in SockIds
  /\ sock[s].peer = 0
  /\ sock[s].st \in {"open", "ended"}
  /\ Alive(sock[s].owner)
  /\ env.budget > 0
  /\ Commit(CloseHandler(World, s))
  /\ env' = [env EXCEPT !.budget = @ - 1]

\* The other end of a connection between two nodes of the run was ended or
\* closed and everything it sent has been read: the socket closes.
PeerClose(s) ==
  /\ s \in SockIds
  /\ sock[s].peer # 0
  /\ sock[s].st \in {"open", "ended"}
  /\ Alive(sock[s].owner)
  /\ sock[sock[s].peer].st \in {"ended", "closed"} \/ ~Alive(sock[sock[s].peer].owner)
  /\ sock[s].wire = <<>>
  /\ Commit(CloseHandler(World, s))
  /\ UNCHANGED env

\* The network drops the connection of socket s while requests of its node
\* are unanswered on it and on another connection: the socket closes and what
\* was in flight to it is lost (close handler, node.js:137-153)
Drop(s) ==
  /\ s \in SockIds
  /\ env.drops > 0
  /\ sock[s].peer # 0
  /\ sock[s].st = "open"
  /\ Alive(sock[s].owner)
  /\ sock[s].unans > 0
  /\ \E q \in SockIds : /\ q # s
                        /\ sock[q].owner = sock[s].owner
                        /\ sock[q].st = "open"
                        /\ sock[q].unans > 0
  /\ Commit(CloseHandler([World EXCEPT !.sock[s].wire = <<>>], s))
  /\ env' = [env EXCEPT !.drops = @ - 1]

(* ------------------------------------------------- the environment's words *)
\* The metadata a peer puts in its handshake: a leecher that knows nothing,
\* a seed of file F, and a peer that shares another file cut in small pieces.
MetaNone == [fileName |-> "out", fileSize |-> NullN, fileHash |-> NullS, pieceSize |-> DefaultPieceSize]

MetaOf(F) == [fileName |-> F.name, fileSize |-> F.size, fileHash |-> F.hash,
              pieceSize |-> Min(DefaultPieceSize, F.size)]

MetaSmall == [fileName |-> "g", fileSize |-> 128, fileHash |-> "H9", pieceSize |-> 64]

F1 == CHOOSE F \in Files : F.name = "f1"

EnvHandshake(id, meta) ==
  HandshakeMsg(id, meta.fileName, meta.fileSize, meta.fileHash, meta.pieceSize, id)

\* The piece a seed of F sends for an index; bytes of no file beyond its end
EnvPiece(F, index) ==
  PieceMsg(index, Base64Encode(
    IF index * DefaultPieceSize < F.size
      THEN Bytes(F, index * DefaultPieceSize, Min(DefaultPieceSize, F.size - index * DefaultPieceSize))
      ELSE [f |-> "junk", off |-> 0, len |-> 1]))

EnvWords ==
  {EnvHandshake(1, meta) : meta \in {MetaNone, MetaOf(F1), MetaSmall}}
    \cup {EnvHandshake(id, MetaOf(F1)) : id \in {2, 3}}
    \cup {EnvPiece(F1, i) : i \in 0..2}
    \cup {BitfieldMsg(q) : q \in {<<0, 1>>, <<1>>}}
    \cup {HaveMsg(1)}
    \cup {RequestMsg(i) : i \in {0, 2}}
    \cup {PeersMsg(q) : q \in {<<1>>, <<3, 2>>}}

\* A download from two peers that share f1
DownloadWords ==
  {EnvHandshake(id, MetaOf(F1)) : id \in {1, 3}}
    \cup {EnvPiece(F1, i) : i \in 0..2}
    \cup {BitfieldMsg(<<0, 1>>)}

\* One peer that shares f1 and connects more than once
ReconnectWords == {EnvHandshake(1, MetaOf(F1)), BitfieldMsg(<<0, 1>>)}

(* ---------------------------------------------------------- specification *)
InitNode(n, F) == [x \in Nodes |-> IF x = n THEN NewNode(NodeId[n], F) ELSE OffNode(NodeId[x])]

\* peer.js:53-61: the node is constructed, listens, and dials --peer if given
Init ==
  /\ \E F \in {NoFile, F1} : node = InitNode("n1", F)
  /\ \E addr \in {0, 3} :
       sock = IF addr = 0 THEN <<>> ELSE <<NewSocket("n1", FALSE, "connecting", 0, addr)>>
  /\ tasks = <<>>
  /\ env = [budget |-> MaxEnvMsgs, chunks |-> {<<m>> : m \in EnvWords}, oneHandshake |-> FALSE,
            maxSocks |-> MaxSocks, maxChunk |-> 0, drops |-> 0]
  /\ last = <<>>

Next ==
  \/ \E n \in Nodes : OpenDone(n)
  \/ \E n \in Nodes : HashDone(n)
  \/ \E s \in 1..MaxSocks : ConnectOK(s)
  \/ \E s \in 1..MaxSocks : ConnectFail(s)
  \/ \E n \in Nodes : EnvConnect(n)
  \/ \E s \in 1..MaxSocks : \E c \in env.chunks : EnvData(s, c)
  \/ \E i \in 1..(MaxEnvMsgs + 2) : Resume(i)
  \/ \E s \in 1..MaxSocks : EnvClose(s)

Spec == Init /\ [][Next]_vars

\* A leecher and remote peers that share f1 with it
InitDownload ==
  /\ node = InitNode("n1", NoFile)
  /\ sock = <<>>
  /\ tasks = <<>>
  /\ env = [budget |-> MaxDownloadMsgs, chunks |-> {<<m>> : m \in DownloadWords},
            oneHandshake |-> TRUE, maxSocks |-> MaxSocks, maxChunk |-> 0, drops |-> 0]
  /\ last = <<>>

NextDownload ==
  \/ \E n \in Nodes : OpenDone(n)
  \/ \E n \in Nodes : EnvConnect(n)
  \/ \E s \in 1..MaxSocks : \E c \in env.chunks : EnvData(s, c)
  \/ \E i \in 1..(MaxDownloadMsgs + 2) : Resume(i)
  \/ \E s \in 1..MaxSocks : EnvClose(s)

SpecDownload == InitDownload /\ [][NextDownload]_vars

\* A leecher and one remote peer that connects several times
InitReconnect ==
  /\ node = InitNode("n1", NoFile)
  /\ sock = <<>>
  /\ tasks = <<>>
  /\ env = [budget |-> MaxReconnectMsgs, chunks |-> {<<m>> : m \in ReconnectWords},
            oneHandshake |-> TRUE, maxSocks |-> MaxSocks, maxChunk |-> 0, drops |-> 0]
  /\ last = <<>>

SpecReconnect == InitReconnect /\ [][NextDownload]_vars

\* Nodes of the run only: leecher n1 is started with --peer n2, where seed
\* n2 has finished its startup and listens (peer.js:53-61)
NoEnv(socks, chunk, drops) ==
  [budget |-> 0, chunks |-> {}, oneHandshake |-> TRUE,
   maxSocks |-> socks, maxChunk |-> chunk, drops |-> drops]

ReadySeed(id, F) ==
  LET fileSize == F.size
      pieceSize == IF fileSize < DefaultPieceSize THEN fileSize ELSE DefaultPieceSize
  IN [NewNode(id, F) EXCEPT !.fileSize = fileSize,
                            !.pieceSize = pieceSize,
                            !.numPieces = CeilDiv(fileSize, pieceSize),
                            !.havePieces = Upto(CeilDiv(fileSize, pieceSize)),
                            !.fileHash = F.hash,
                            !.fileManager = [pieceSize |-> pieceSize, fileHandle |-> TRUE,
                                             fileSize |-> fileSize, mode |-> "r"],
                            !.phase = "ready"]

InitLive ==
  /\ \E F \in Files :
       node = [x \in Nodes |-> CASE x = "n1" -> NewNode(NodeId[x], NoFile)
                                 [] x = "n2" -> ReadySeed(NodeId[x], F)
                                 [] OTHER -> OffNode(NodeId[x])]
  /\ sock = <<NewSocket("n1", FALSE, "connecting", 0, NodeId["n2"])>>
  /\ tasks = <<>>
  /\ env = NoEnv(MaxLiveSocks, MaxChunk, 0)
  /\ last = <<>>

NextLive ==
  \/ \E n \in Nodes : OpenDone(n)
  \/ \E s \in 1..MaxLiveSocks : ConnectOK(s)
  \/ \E s \in 1..MaxLiveSocks : \E k \in 1..MaxChunk : Deliver(s, k)
  \/ \E i \in 1..MaxTasks : Resume(i)
  \/ \E s \in 1..MaxLiveSocks : PeerClose(s)

SpecLive == InitLive /\ [][NextLive]_vars

\* Leecher n1 is started with --peer n3, seed n2 is started with --peer n1;
\* both seeds have finished their startup.  The network may drop one
\* connection of the leecher while it waits for pieces on two.
InitDrop ==
  /\ node = [x \in Nodes |-> IF x = "n1" THEN NewNode(NodeId[x], NoFile)
                                          ELSE ReadySeed(NodeId[x], F1)]
  /\ sock = <<NewSocket("n1", FALSE, "connecting", 0, NodeId["n3"]),
              NewSocket("n2", FALSE, "connecting", 0, NodeId["n1"])>>
  /\ tasks = <<>>
  /\ env = NoEnv(MaxDropSocks, MaxDropChunk, 1)
  /\ last = <<>>

NextDrop ==
  \/ \E n \in Nodes : OpenDone(n)
  \/ \E s \in 1..MaxDropSocks : ConnectOK(s)
  \/ \E s \in 1..MaxDropSocks : \E k \in 1..MaxDropChunk : Deliver(s, k)
  \/ \E i \in 1..MaxDropTasks : Resume(i)
  \/ \E s \in 1..MaxDropSocks : PeerClose(s)
  \/ \E s \in 1..MaxDropSocks : Drop(s)

SpecDrop == InitDrop /\ [][NextDrop]_vars

(* ------------------------------------------------------------- claims *)
HaveSet(n) == Range(node[n].havePieces)

AllPieces(n) == 0..(node[n].numPieces - 1)

OpenSocks == {s \in SockIds : sock[s].st = "open"}

\* The messages received, and the messages written, in the last event-loop turn
Received == SelectSeq(last, LAMBDA e : e.t = "recv")

Written == SelectSeq(last, LAMBDA e : e.t = "write")

\* C1: once numPieces is known, have and missing partition {0..numPieces-1}
C1_Partition ==
  \A n \in Nodes : node[n].numPieces # NullN =>
    /\ HaveSet(n) \cap node[n].missingPieces = {}
    /\ HaveSet(n) \cup node[n].missingPieces = AllPieces(n)

\* C2: every index with an outstanding request is an index the node still misses
C2_PendingSubsetMissing ==
  \A n \in Nodes : node[n].pendingPieces \subseteq node[n].missingPieces

\* C2 witness: a request is outstanding after a connection was closed and a
\* piece was stored
C2_Witness ==
  /\ node["n1"].pendingPieces # {}
  /\ node["n1"].havePieces # <<>>
  /\ \E s \in SockIds : sock[s].st = "closed"

\* C3: no two open sockets of a node carry the same peerId
C3_OneOpenSocketPerPeer ==
  \A s1, s2 \in OpenSocks :
    (s1 # s2 /\ sock[s1].owner = sock[s2].owner /\ sock[s1].peerId # 0)
      => sock[s1].peerId # sock[s2].peerId

RECURSIVE SumUnans(_)
SumUnans(S) == IF S = {} THEN 0
               ELSE LET s == CHOOSE x \in S : TRUE IN sock[s].unans + SumUnans(S \ {s})

\* C4: at most one request to a peer is unanswered on its open connections
C4_OneOutstandingPerPeer ==
  \A n \in Nodes : \A id \in Ids :
    SumUnans({s \in OpenSocks : sock[s].owner = n /\ sock[s].peerId = id}) <= 1

\* C5: after completion handling finished, have is everything, missing is
\* empty and isSeed is true, for ever
C5_CompletionStable ==
  \A n \in Nodes : (node[n].completed /\ node[n].numPieces # NullN) =>
    /\ HaveSet(n) = AllPieces(n)
    /\ node[n].missingPieces = {}
    /\ node[n].isSeed

OneHandshake(s, m) ==
  /\ Len(Received) = 1
  /\ Received[1].s = s
  /\ Received[1].m = m
  /\ m.type = "handshake"

\* C9: a seed that knows its hash H1 and receives a handshake with another
\* non-null hash closes the connection, keeps no record for the remote id and
\* sends nothing
C9_WrongFileRejected ==
  \A s \in SockIds : \A m \in Range([j \in 1..Len(Received) |-> Received[j].m]) :
    LET N == node[sock[s].owner]
    IN (/\ OneHandshake(s, m)
        /\ last[1].t = "recv"
        /\ m.id # N.id
        /\ N.isSeed
        /\ N.fileHash # NullS
        /\ m.fileHash \notin {NullS, N.fileHash})
       => /\ sock[s].st # "open"
          /\ ~HasPeer(N.knownPeers, m.id)
          /\ Written = <<>>

\* C9 witness: a seed has just received a handshake for another file
C9_Witness ==
  \E s \in SockIds :
    /\ Len(Received) = 1
    /\ OneHandshake(s, Received[1].m)
    /\ last[1].t = "recv"
    /\ node[sock[s].owner].isSeed
    /\ node[sock[s].owner].fileHash = "H1"
    /\ Received[1].m.fileHash = "H9"
    /\ Received[1].m.id # node[sock[s].owner].id

Idle ==
  /\ \A n \in Nodes : node[n].phase \notin {"opening", "hashing"}
  /\ \A i \in 1..Len(tasks) : ~Alive(sock[tasks[i].s].owner)
  /\ \A s \in SockIds :
       Alive(sock[s].owner) =>
         /\ sock[s].st # "connecting"
         /\ (sock[s].st \in {"open", "ended"} /\ sock[s].peer # 0) =>
              /\ sock[s].wire = <<>>
              /\ sock[sock[s].peer].st = "open"
              /\ Alive(sock[sock[s].peer].owner)

\* The leecher holds every piece of seed n with the seed's bytes at the
\* piece's offset, and misses nothing
CompleteFrom(n) ==
  /\ node["n1"].numPieces = node[n].numPieces
  /\ HaveSet("n1") = HaveSet(n)
  /\ node["n1"].disk = node[n].disk
  /\ node["n1"].missingPieces = {}

\* C7: leecher n1, started with --peer n2 where n2 is a fully started seed,
\* with no connection failure and every message delivered: when nothing is
\* left to do, n1 holds every piece of n2 with n2's bytes at the piece's
\* offset and has nothing missing
C7_LeecherCompletes == Idle => CompleteFrom("n2")

\* The open connection of the leecher to a peer id, if any
LeecherSocks(id) ==
  {s \in SockIds : sock[s].owner = "n1" /\ sock[s].st = "open" /\ sock[s].peerId = id}

\* C8: after the connection to one peer was dropped while requests to it and
\* to peer n2 were unanswered, and n2 stays connected: when nothing is left
\* to do, the leecher holds every piece and has nothing missing
C8_CompletesAfterDrop ==
  (Idle /\ env.drops = 0 /\ LeecherSocks(NodeId["n2"]) # {}) => CompleteFrom("n2")

\* C8 witness: the drop happened, n2 is still connected and nothing is left
\* to do
C8_Witness ==
  /\ Idle
  /\ env.drops = 0
  /\ LeecherSocks(NodeId["n2"]) # {}
  /\ node["n1"].numPieces > 1

\* The fields of a node that a message handler may change and a peer observes
NodeView(N) ==
  [knownPeers |-> N.knownPeers, havePieces |-> N.havePieces,
   missingPieces |-> N.missingPieces, pendingPieces |-> N.pendingPieces,
   fileName |-> N.fileName, fileSize |-> N.fileSize, pieceSize |-> N.pieceSize,
   fileHash |-> N.fileHash, numPieces |-> N.numPieces, isSeed |-> N.isSeed]

\* Trace l is that of a data event that handled exactly one message: message m
\* on socket s
OnlyReceived(l, s, m) ==
  /\ Len(l) >= 1
  /\ l[1] = [t |-> "recv", s |-> s, m |-> m]
  /\ Len(SelectSeq(l, LAMBDA e : e.t = "recv")) = 1

\* The messages written to socket s in trace l
WrittenOn(l, s) ==
  LET w == SelectSeq(l, LAMBDA e : e.t = "write" /\ e.s = s)
  IN [j \in 1..Len(w) |-> w[j].m]

\* C11: a handshake whose id is the node's own id changes nothing of the node
\* (knownPeers, have, missing, pending, file metadata, isSeed) and no message
\* is sent in response
C11_SelfHandshakeNoEffect ==
  [][\A s \in DOMAIN sock :
       (/\ Len(last') >= 1
        /\ last'[1].t = "recv"
        /\ last'[1].m.type = "handshake"
        /\ OnlyReceived(last', s, last'[1].m)
        /\ last'[1].m.id = node[sock[s].owner].id)
       => /\ NodeView(node'[sock[s].owner]) = NodeView(node[sock[s].owner])
          /\ SelectSeq(last', LAMBDA e : e.t = "write") = <<>>]_vars

\* C11 witness: a node that knows a peer and a file hash has just handled a
\* handshake with its own id
C11_Witness ==
  \E s \in SockIds :
    /\ Len(last) >= 1
    /\ last[1].t = "recv"
    /\ last[1].m.type = "handshake"
    /\ OnlyReceived(last, s, last[1].m)
    /\ last[1].m.id = node[sock[s].owner].id
    /\ node[sock[s].owner].knownPeers # <<>>
    /\ node[sock[s].owner].fileHash # NullS

\* The outcomes that trace l records for the handshakes handled on socket s
HandshakeOutcomes(l, s) ==
  {l[j].outcome : j \in {i \in 1..Len(l) : l[i].t = "handshake" /\ l[i].s = s}}

\* C12: a handshake is rejected for lack of metadata (connection closed, peer
\* record removed) exactly when the local node has no file metadata and the
\* handshake carries none; a leecher that has adopted metadata does not close
\* a connection for a handshake without metadata
C12_NoMetaRejectIffNeither ==
  [][\A s \in DOMAIN sock :
       LET N == node[sock[s].owner]
       IN (/\ Len(last') >= 1
           /\ last'[1].t = "recv"
           /\ last'[1].m.type = "handshake"
           /\ OnlyReceived(last', s, last'[1].m)
           /\ last'[1].m.id # N.id)
          => (("nometa" \in HandshakeOutcomes(last', s))
                <=> (/\ ~N.isSeed
                     /\ N.fileHash = NullS
                     /\ OrNullS(last'[1].m.fileHash) = NullS))]_vars

\* The file metadata of a node
Metadata(N) ==
  [fileName |-> N.fileName, fileSize |-> N.fileSize, pieceSize |-> N.pieceSize,
   fileHash |-> N.fileHash, numPieces |-> N.numPieces]

\* C13: metadata is adopted from the first handshake that provides it: once a
\* node knows its file hash, no step changes fileName, fileSize, pieceSize,
\* fileHash or numPieces, empties have or refills missing
C13_FirstWriterWins ==
  [][\A n \in Nodes :
       node[n].fileHash # NullS =>
         /\ Metadata(node'[n]) = Metadata(node[n])
         /\ Range(node[n].havePieces) \subseteq Range(node'[n].havePieces)
         /\ node'[n].missingPieces \subseteq node[n].missingPieces]_vars

\* Two nodes with ids drawn from 1..MaxId; both apply the collision rule to
\* the other's id (node.js:424)
InitIds ==
  /\ \E a, b \in 1..MaxId :
       node = [x \in Nodes |-> CASE x = "n1" -> NewNode(a, NoFile)
                                 [] x = "n2" -> NewNode(b, NoFile)
                                 [] OTHER -> OffNode(0)]
  /\ sock = <<>>
  /\ tasks = <<>>
  /\ env = NoEnv(0, 0, 0)
  /\ last = <<>>

\* Node n evaluates _shouldInitiateConnection for the id of node m
ShouldInitiate(n, m) ==
  [t |-> "shouldInitiate", n |-> n, other |-> m,
   result |-> ShouldInitiateConnection(IdString(node[n].id), IdString(node[m].id))]

Collide ==
  /\ last' = <<ShouldInitiate("n1", "n2"), ShouldInitiate("n2", "n1")>>
  /\ UNCHANGED <<node, sock, tasks, env>>

NextIds == Collide

SpecIds == InitIds /\ [][NextIds]_vars

\* C14: for two distinct ids a and b exactly one of shouldInitiate at a for b
\* and at b for a is true, and it is the one at the node whose id is the
\* greater hexadecimal string
C14_CollisionRule ==
  (last # <<>> /\ node["n1"].id # node["n2"].id) =>
    /\ last[1].result <=> ~last[2].result
    /\ last[1].result <=> node["n1"].id > node["n2"].id

\* C14 witness: the rule was applied to two distinct ids of which one has a
\* letter where the other has a digit
C14_Witness ==
  /\ last # <<>>
  /\ node["n1"].id = 10
  /\ node["n2"].id = 9
  /\ last[1].result

\* What remote peers send to two nodes that do not know each other: a
\* handshake, and peers messages that list one or both of them
PexWords ==
  {EnvHandshake(NodeId["n3"], MetaOf(F1))}
    \cup {PeersMsg(q) : q \in {<<NodeId["n1"]>>, <<NodeId["n2"]>>, <<NodeId["n2"], NodeId["n1"]>>}}

\* Nodes n1 and n2 are started, each with or without the file, with no --peer;
\* remote peers connect to them and tell each of the other (peer.js:53-61)
InitPex ==
  /\ \E F, G \in {NoFile, F1} :
       node = [x \in Nodes |-> CASE x = "n1" -> NewNode(NodeId[x], F)
                                 [] x = "n2" -> NewNode(NodeId[x], G)
                                 [] OTHER -> OffNode(NodeId[x])]
  /\ sock = <<>>
  /\ tasks = <<>>
  /\ env = [budget |-> MaxPexMsgs, chunks |-> {<<m>> : m \in PexWords}, oneHandshake |-> TRUE,
            maxSocks |-> MaxPexSocks, maxChunk |-> MaxChunk, drops |-> 0]
  /\ last = <<>>

NextPex ==
  \/ \E n \in Nodes : OpenDone(n)
  \/ \E n \in Nodes : HashDone(n)
  \/ \E n \in Nodes : EnvConnect(n)
  \/ \E s \in 1..MaxPexSocks : \E c \in env.chunks : EnvData(s, c)
  \/ \E s \in 1..MaxPexSocks : ConnectOK(s)
  \/ \E s \in 1..MaxPexSocks : \E k \in 1..MaxChunk : Deliver(s, k)
  \/ \E i \in 1..MaxTasks : Resume(i)
  \/ \E s \in 1..MaxPexSocks : PeerClose(s)

SpecPex == InitPex /\ [][NextPex]_vars

\* The connections that node n has dialled to the address of node m
Dials(n, m) == {s \in SockIds : sock[s].owner = n /\ sock[s].target = NodeId[m]}

\* C15: when n1 and n2 learn of each other through peers messages, the node
\* with the smaller id (n1) never dials the other, and the node with the
\* greater id (n2) dials exactly once, however often it is told
C15_OneDialPerPair ==
  /\ Dials("n1", "n2") = {}
  /\ Cardinality(Dials("n2", "n1")) <= 1
  /\ HasPeer(node["n2"].knownPeers, NodeId["n1"]) => Cardinality(Dials("n2", "n1")) = 1

\* Trace l handled one handshake, on socket s, accepted it, and handled
\* nothing after it
AcceptedOnce(l, s) ==
  /\ Len(l) >= 1
  /\ l[Len(l)].t = "handshake"
  /\ l[Len(l)].s = s
  /\ l[Len(l)].outcome = "accepted"
  /\ Len(SelectSeq(l, LAMBDA e : e.t = "handshake")) = 1

\* The bitfield messages written to socket s in trace l
Bitfields(l, s) == SelectSeq(WrittenOn(l, s), LAMBDA m : m.type = "bitfield")

C17_OneReplyPerConnection ==
  \A s \in SockIds :
    (/\ AcceptedOnce(last, s)
     /\ ~sock[s].isOutgoing
     /\ sock[s].st = "open"
     /\ \A q \in SockIds \ {s} : sock[q].owner = sock[s].owner => sock[q].st = "closed")
    => sock[s].hsOut = 1

\* C18: on an inbound connection the node writes no message before a
\* handshake has arrived on it, and on an outbound connection its handshake
\* is the first message it writes (it is written as the connection opens)
C18_NothingBeforeHandshake ==
  \A s \in SockIds :
    /\ (~sock[s].isOutgoing /\ WrittenOn(last, s) # <<>>) => sock[s].greeted
    /\ sock[s].isOutgoing => sock[s].hsOut >= 1

\* The reads of piece index for socket s that are under way in task list ts
ReadsFor(ts, s, index) ==
  {j \in 1..Len(ts) : ts[j].kind = "read" /\ ts[j].s = s /\ ts[j].index = index}

\* The indices of the pieces that trace l records as stored
StoredIn(l) == {l[j].index : j \in {i \in 1..Len(l) : l[i].t = "piece" /\ l[i].outcome = "stored"}}

\* C20: a piece is written to a connection only by a read that a request for
\* that index on that connection has started, and such a read is started
\* only for an index in have; a request for an index not in have starts no
\* read, writes nothing and leaves have, missing, pending and knownPeers alone
C20_PieceOnlyOnRequest ==
  [][/\ \A j \in 1..Len(last') :
          (last'[j].t = "write" /\ last'[j].m.type = "piece")
            => ReadsFor(tasks, last'[j].s, last'[j].m.index) # {}
     /\ \A k \in 1..Len(tasks') :
          LET s == tasks'[k].s
              index == tasks'[k].index
          IN (/\ tasks'[k].kind = "read"
              /\ Cardinality(ReadsFor(tasks', s, index)) > Cardinality(ReadsFor(tasks, s, index)))
             => /\ \E j \in 1..Len(last') :
                     last'[j] = [t |-> "recv", s |-> s, m |-> RequestMsg(index)]
                /\ index \in Range(node[sock[s].owner].havePieces) \cup StoredIn(last')
     /\ \A s \in DOMAIN sock :
          (/\ Len(last') >= 1
           /\ last'[1].t = "recv"
           /\ last'[1].m.type = "request"
           /\ OnlyReceived(last', s, last'[1].m)
           /\ last'[1].m.index \notin Range(node[sock[s].owner].havePieces))
          => /\ NodeView(node'[sock[s].owner]) = NodeView(node[sock[s].owner])
             /\ tasks' = tasks
             /\ SelectSeq(last', LAMBDA e : e.t = "write") = <<>>]_vars

\* C20 witness: a piece the node holds was just written to a connection in
\* answer to a request
C20_Witness ==
  \E j \in 1..Len(last) :
    /\ last[j].t = "write"
    /\ last[j].m.type = "piece"
    /\ last[j].m.index \in HaveSet(sock[last[j].s].owner)

\* The positions after j in trace l where message type ty was written
WritesAfter(l, j, ty) ==
  {h \in (j + 1)..Len(l) : l[h].t = "write" /\ l[h].m.type = ty}

\* C21: when a received piece is recorded, have for its index is written to
\* the open connection of every other known peer, and to no other, and each
\* of these is written before any request that follows the recording
C21_HaveBeforeRequest ==
  [][\A j \in 1..Len(last') :
       (last'[j].t = "piece" /\ last'[j].outcome = "stored") =>
         LET s == last'[j].s
             N == node[sock[s].owner]
             others == {N.knownPeers[i].socket : i \in
                         {x \in 1..Len(N.knownPeers) :
                            /\ N.knownPeers[x].socket # 0
                            /\ N.knownPeers[x].id # sock[s].peerId
                            /\ sock[N.knownPeers[x].socket].st = "open"}}
             haves == WritesAfter(last', j, "have")
         IN /\ {last'[h].s : h \in haves} = others
            /\ \A h \in haves : last'[h].m = HaveMsg(last'[j].index)
            /\ \A h \in haves : \A r \in WritesAfter(last', j, "request") : h < r]_vars

\* C21 witness: a piece was recorded, another peer was told and a request
\* followed
C21_Witness ==
  \E j \in 1..Len(last) :
    /\ last[j].t = "piece"
    /\ last[j].outcome = "stored"
    /\ WritesAfter(last, j, "have") # {}
    /\ WritesAfter(last, j, "request") # {}

\* The handlers of messages of socket s that are suspended on file I/O in
\* task list ts (setSize, writePiece, computeHash)
Suspended(ts, s) ==
  {i \in 1..Len(ts) : ts[i].s = s /\ ts[i].kind \in {"setSize", "write", "hash"}}

\* C22: a data event of a connection handles no message while the handler of
\* an earlier message of that connection is suspended on file I/O
C22_InArrivalOrder ==
  [][(Len(last') >= 1 /\ last'[1].t = "recv") => Suspended(tasks, last'[1].s) = {}]_vars

\* Two peers that share f1, connect more than once and send no piece
PassWords ==
  {EnvHandshake(id, MetaOf(F1)) : id \in {1, 3}} \cup {BitfieldMsg(<<0, 1>>)}

InitPass ==
  /\ node = InitNode("n1", NoFile)
  /\ sock = <<>>
  /\ tasks = <<>>
  /\ env = [budget |-> MaxPassMsgs, chunks |-> {<<m>> : m \in PassWords},
            oneHandshake |-> TRUE, maxSocks |-> MaxSocks, maxChunk |-> 0, drops |-> 0]
  /\ last = <<>>

SpecPass == InitPass /\ [][NextDownload]_vars

\* The positions of trace l where a request was written
Requests(l) == {h \in 1..Len(l) : l[h].t = "write" /\ l[h].m.type = "request"}

\* Trace l is that of a turn with at most one scheduler pass: a close, a data
\* event that handled one message, or a resumed handler that took no further
\* message from the buffer
OnePass(l) ==
  LET recvs == SelectSeq(l, LAMBDA e : e.t = "recv")
  IN Len(recvs) <= 1 /\ (Len(recvs) = 1 => l[1].t = "recv")

\* index is the first entry of avail that is in missing and not in taken
IsFirstFree(avail, missing, taken, index) ==
  \E k \in 1..Len(avail) :
    /\ avail[k] = index
    /\ index \in missing
    /\ index \notin taken
    /\ \A j \in 1..(k - 1) : avail[j] \notin missing \/ avail[j] \in taken

C24_CloseFrame ==
  [][\A s \in DOMAIN sock :
       (Len(last') >= 1 /\ last'[1].t = "close" /\ last'[1].s = s) =>
         LET N == node[sock[s].owner]
             M == node'[sock[s].owner]
             pid == sock[s].peerId
             reqs == Requests(last')
         IN /\ M.havePieces = N.havePieces
            /\ M.missingPieces = N.missingPieces
            /\ M.pendingPieces = {last'[h].m.index : h \in reqs}
            /\ Len(M.knownPeers) = Len(N.knownPeers)
            /\ \A i \in 1..Len(N.knownPeers) :
                 LET p == N.knownPeers[i]
                     q == M.knownPeers[i]
                 IN /\ q.id = p.id
                    /\ q.availablePieces = p.availablePieces
                    /\ IF pid # 0 /\ p.id = pid
                         THEN q.socket = 0 /\ ~q.busy
                         ELSE /\ q.socket = p.socket
                              /\ q.busy <=> (p.busy \/ \E h \in reqs : last'[h].s = p.socket)]_vars

\* C24 witness: the connection of a known peer has just closed, the node
\* knows another peer and the scheduler has sent a request
C24_Witness ==
  /\ Len(last) >= 1
  /\ last[1].t = "close"
  /\ last[1].id # 0
  /\ HasPeer(node[sock[last[1].s].owner].knownPeers, last[1].id)
  /\ Len(node[sock[last[1].s].owner].knownPeers) >= 2
  /\ Requests(last) # {}

\* C25: on a node started as a leecher no step removes an index from have
C25_HaveOnlyGrows ==
  [][\A n \in Nodes :
       (Alive(n) /\ ~node[n].startedAsSeed)
         => Range(node[n].havePieces) \subseteq Range(node'[n].havePieces)]_vars

\* C26: every handshake that a node started as a seed writes carries its
\* fileHash, its fileSize and the pieceSize it uses, none of them null, and
\* such a node accepts a handshake only when its own fileHash is known
C26_SeedMetadataComplete ==
  \A j \in 1..Len(last) :
    LET N == node[sock[last[j].s].owner]
    IN /\ (last[j].t = "write" /\ last[j].m.type = "handshake" /\ N.startedAsSeed)
            => /\ last[j].m.fileHash # NullS
               /\ last[j].m.fileSize # NullN
               /\ last[j].m.pieceSize = N.pieceSize
       /\ (last[j].t = "handshake" /\ last[j].outcome = "accepted" /\ N.startedAsSeed)
            => N.fileHash # NullS

\* C27: a step that makes a node started as a leecher a seed ends in a state
\* where the node has adopted metadata and have holds every index below
\* numPieces
C27_SeedOnlyWhenComplete ==
  [][\A n \in Nodes :
       (Alive(n) /\ ~node[n].startedAsSeed /\ ~node[n].isSeed /\ node'[n].isSeed)
         => /\ node'[n].fileHash # NullS
            /\ node'[n].numPieces # NullN
            /\ \A i \in 0..(node'[n].numPieces - 1) : i \in Range(node'[n].havePieces)]_vars

\* C28: once a node knows the metadata, the piece size its file manager
\* multiplies indices by is the node's pieceSize
C28_ManagerPieceSize ==
  \A n \in Nodes :
    (Alive(n) /\ node[n].fileHash # NullS)
      => node[n].fileManager.pieceSize = node[n].pieceSize

\* C29: when a connection closes while the record of its peer id references
\* another, open connection (the one of the peer's latest handshake), the
\* record keeps that connection and a set busy flag stays set
C29_OlderCloseKeepsRecord ==
  [][\A q \in DOMAIN sock :
       (Len(last') >= 1 /\ last'[1].t = "close" /\ last'[1].s = q /\ sock[q].peerId # 0) =>
         LET kp == node[sock[q].owner].knownPeers
         IN \A i \in 1..Len(kp) :
              (/\ kp[i].id = sock[q].peerId
               /\ kp[i].socket # 0
               /\ kp[i].socket # q
               /\ sock[kp[i].socket].st = "open")
              => /\ node'[sock[q].owner].knownPeers[i].socket = kp[i].socket
                 /\ kp[i].busy => node'[sock[q].owner].knownPeers[i].busy]_vars

\* C30: whenever no handler of a node is suspended, something is missing and
\* fileHash is known, no peer with an open connection that is not busy has
\* in its availablePieces an index that is missing and not pending
C30_WorkConserving ==
  \A n \in Nodes :
    LET N == node[n]
    IN (/\ Alive(n)
        /\ \A s \in SockIds : sock[s].owner = n => Suspended(tasks, s) = {}
        /\ N.missingPieces # {}
        /\ N.fileHash # NullS)
       => \A i \in 1..Len(N.knownPeers) :
            LET p == N.knownPeers[i]
            IN (p.socket # 0 /\ sock[p.socket].st = "open" /\ ~p.busy)
                 => \A k \in 1..Len(p.availablePieces) :
                      p.availablePieces[k] \in N.missingPieces
                        => p.availablePieces[k] \in N.pendingPieces

====
